---- MODULE Spec2Model ----
(***************************************************************************)
(* personal-finance-app/server.js as a state machine.                      *)
(*                                                                         *)
(* Every route handler is an async function; the points where it can be    *)
(* interleaved with other requests are its awaits.  An await of a pure     *)
(* computation (bcrypt.hash, bcrypt.compare) touches no shared state and   *)
(* is folded into the neighbouring step; an await of the User collection   *)
(* or of the aggregator (Plaid) ends a step.  A handler with two such      *)
(* awaits is therefore two actions, and the request waits in `inflight`    *)
(* between them.                                                           *)
(*                                                                         *)
(* What a step does is computed by an operator named after the handler: it *)
(* yields an Outcome (the response sent, the collection after the step,    *)
(* the request left suspended, the call made to the aggregator), and the   *)
(* action of the same name in capitals applies it to the state.            *)
(*                                                                         *)
(* Request bodies are well typed (strings where the handler expects        *)
(* strings); server.js does not validate them.                             *)
(***************************************************************************)
EXTENDS Integers, Sequences, FiniteSets, Bags, TLC

VARIABLES
    jwtSecret,  \* JWT_SECRET, fixed when the module is loaded
    users,      \* the User collection, a bag of documents
    inflight,   \* bag of requests suspended at their second await
    issued,     \* tokens handed out by POST /login (what clients hold)
    registered, \* the documents as user.save() wrote them (history)
    linked      \* emails whose exchange was acknowledged (history)

vars == <<jwtSecret, users, inflight, issued, registered, linked>>

----------------------------------------------------------------------------
(* Bounds and data domains *)

MaxInFlight == 2

Emails == {"a@x.com", "b@x.com"}
\* the people who sign up, each with the password they choose
People ==
    {[firstName |-> "Ann", lastName |-> "Lee", password |-> "p1"],
     [firstName |-> "Bob", lastName |-> "Kim", password |-> "p2"]}
Passwords == {"p1", "p2"}
Salts == {"salt-1", "salt-2"}
Keys == {"secret"}
AttackerKey == "attacker-key"
AccessValues == {"access-1", "access-2"}
PublicTokens == {"public-token"}
PlaidOutcomes == {"ok", "http_error", "no_response"}

----------------------------------------------------------------------------
(* bcryptjs *)

\* bcrypt.hash(password, 10): a digest of the password under a fresh salt;
\* the salt is kept in the hash string
Hash(password, salt) == [salt |-> salt, digest |-> <<salt, password>>]

\* bcrypt.compare(password, hash): re-hash under the salt stored in hash
Compare(password, hash) == Hash(password, hash.salt).digest = hash.digest

NoHash == [salt |-> "none", digest |-> <<"none", "none">>]

----------------------------------------------------------------------------
(* jsonwebtoken *)

\* jwt.sign({ email }, JWT_SECRET): the payload and a MAC of it under the key
JwtSign(payload, secret) == [email |-> payload.email, key |-> secret]

\* a string that is no JWT at all
Garbage == [email |-> "none", key |-> "none"]

\* jwt.verify(token, JWT_SECRET) does not throw
JwtVerifies(token, secret) == token # Garbage /\ token.key = secret

\* what jwt.verify returns when it does not throw
JwtDecoded(token) == [email |-> token.email]

\* the Authorization header: absent (or empty: !token), one word, or
\* "<scheme> <token>"
NoHeader == [parts |-> 0, token |-> Garbage]
OneWord == [parts |-> 1, token |-> Garbage]
Bearer(token) == [parts |-> 2, token |-> token]

\* a token a client signs itself, under a key of its own
Forged(email) == JwtSign([email |-> email], AttackerKey)

\* headers a client can send: it holds the tokens login gave out and can
\* sign tokens of its own, but not under JWT_SECRET
Headers ==
    {NoHeader, OneWord}
        \cup {Bearer(Forged(e)) : e \in Emails}
        \cup {Bearer(t) : t \in issued}

----------------------------------------------------------------------------
(* The User collection *)

NoAccess == [value |-> "none", answeredTo |-> "none"]

NoDoc ==
    [firstName |-> "none", lastName |-> "none", email |-> "none",
     password |-> NoHash, accessToken |-> NoAccess]

Matching(docs, email) == {d \in BagToSet(docs) : d.email = email}

\* User.findOne({ email }): a matching document, or null
FindOne(docs, email) ==
    IF Matching(docs, email) = {} THEN NoDoc
    ELSE CHOOSE d \in Matching(docs, email) : TRUE

\* the collection with one copy of document d replaced by e
Replace(docs, d, e) == (docs (-) SetToBag({d})) (+) SetToBag({e})

\* faulty variant: a collection without the unique index
DuplicateKey_noIndex(docs, doc) == FALSE

\* the unique index on email rejects the insert (duplicate key error)
DuplicateKey(docs, doc) == Matching(docs, doc.email) # {}

\* user.save() of a new document, when the index accepts it
Save(docs, doc) == docs (+) SetToBag({doc})

\* faulty variant: the update is applied to every document (updateMany({}))
FindOneAndUpdate_many(docs, email, accessToken) ==
    SetToBag({[d EXCEPT !.accessToken = accessToken] : d \in BagToSet(docs)})

\* User.findOneAndUpdate({ email }, { accessToken }, { new: true }): the
\* collection after the update (unchanged when nothing matches)
FindOneAndUpdate(docs, email, accessToken) ==
    IF Matching(docs, email) = {} THEN docs
    ELSE Replace(docs, FindOne(docs, email),
                 [FindOne(docs, email) EXCEPT !.accessToken = accessToken])

----------------------------------------------------------------------------
(* The aggregator *)

NoCall == [endpoint |-> "none"]

\* the access tokens /item/public_token/exchange can answer with; answeredTo
\* records the identity of the request that was answered
PlaidAccessTokens(who) ==
    {[value |-> v, answeredTo |-> who] : v \in AccessValues}

\* the answers of /item/public_token/exchange to a request made for who:
\* an access token, or a failure
PlaidExchange(public_token, who) ==
    {[outcome |-> "ok", access_token |-> t] : t \in PlaidAccessTokens(who)}
      \cup {[outcome |-> o, access_token |-> NoAccess] :
                o \in PlaidOutcomes \ {"ok"}}

\* response.data of /transactions/get
PlaidTransactions(access_token) ==
    [transactions |-> <<[account |-> access_token.value, amount |-> 1]>>,
     total_transactions |-> 1]

\* error.response.data of a call the aggregator refused
PlaidError == [error_code |-> "PLAID_ERROR"]

----------------------------------------------------------------------------
(* Requests, responses and outcomes of a step *)

NoBody == [none |-> TRUE]
NoUser == [email |-> "none"]

\* res.status(status).send(text) / res.json(data)
Response(status, data) == [status |-> status, data |-> data]

\* the step ends at an await: nothing is sent yet
NoResponse == [status |-> 0, data |-> NoBody]

Text(text) == [text |-> text]

\* a request suspended at the second await of its handler; access is the
\* access token the handler holds in a local (response.data.access_token,
\* user.accessToken)
Suspended(route, header, body, user, access) ==
    [route |-> route, header |-> header, body |-> body, user |-> user,
     access |-> access]

\* what one step of a handler does: ran says whether the route handler was
\* entered, user is req.user, sent the response, users the collection after
\* the step, suspended the request left waiting (at most one), plaid the call
\* made to the aggregator
Outcome(ran, user, sent, docs, suspended, call) ==
    [ran |-> ran, user |-> user, sent |-> sent, users |-> docs,
     suspended |-> suspended, plaid |-> call]

\* the handler answers at once and touches nothing
Answer(user, status, data) ==
    Outcome(TRUE, user, Response(status, data), users, {}, NoCall)

\* the handler waits at its second await
Await(user, q, call) == Outcome(TRUE, user, NoResponse, users, {q}, call)

Waiting(route) == {q \in BagToSet(inflight) : q.route = route}

----------------------------------------------------------------------------
(* authenticateJWT *)

\* faulty variant: jwt.decode in place of jwt.verify (the signature is not
\* checked)
authenticateJWT_decode(header) ==
    IF header.parts = 0
    THEN [next |-> FALSE, user |-> NoUser,
          sent |-> Response(401, Text("Access denied. No token provided."))]
    ELSE IF header.parts = 2 /\ header.token # Garbage
    THEN [next |-> TRUE, user |-> JwtDecoded(header.token),
          sent |-> NoResponse]
    ELSE [next |-> FALSE, user |-> NoUser,
          sent |-> Response(400, Text("Invalid token."))]

\* faulty variant: jwt.verify is given the whole header, scheme included,
\* and throws on it
authenticateJWT_noSplit(header) ==
    IF header.parts = 0
    THEN [next |-> FALSE, user |-> NoUser,
          sent |-> Response(401, Text("Access denied. No token provided."))]
    ELSE [next |-> FALSE, user |-> NoUser,
          sent |-> Response(400, Text("Invalid token."))]

\* token.split(' ')[1] is undefined for a header of one word, and jwt.verify
\* throws on it
authenticateJWT(header) ==
    IF header.parts = 0
    THEN [next |-> FALSE, user |-> NoUser,
          sent |-> Response(401, Text("Access denied. No token provided."))]
    ELSE IF header.parts = 2 /\ JwtVerifies(header.token, jwtSecret)
    THEN [next |-> TRUE, user |-> JwtDecoded(header.token),
          sent |-> NoResponse]
    ELSE [next |-> FALSE, user |-> NoUser,
          sent |-> Response(400, Text("Invalid token."))]

\* the middleware answers and the route handler is not entered
Rejected(header) ==
    Outcome(FALSE, NoUser, authenticateJWT(header).sent, users, {}, NoCall)

----------------------------------------------------------------------------
(* POST /signup *)

SignupBodies ==
    {[firstName |-> p.firstName, lastName |-> p.lastName, email |-> e,
      password |-> p.password] : p \in People, e \in Emails}

\* faulty variant: no look at userExists
signup_findOne_noCheck(body, dbOk) ==
    IF ~dbOk THEN Answer(NoUser, 500, Text("Server error."))
    ELSE Await(NoUser,
               Suspended("/signup", NoHeader, body, NoUser, NoAccess),
               NoCall)

\* up to the answer of User.findOne; dbOk is false when the store throws
signup_findOne(body, dbOk) ==
    LET userExists == FindOne(users, body.email)
    IN  IF ~dbOk THEN Answer(NoUser, 500, Text("Server error."))
        ELSE IF userExists # NoDoc
        THEN Answer(NoUser, 400, Text("User already exists."))
        ELSE Await(NoUser,
                   Suspended("/signup", NoHeader, body, NoUser, NoAccess),
                   NoCall)

\* bcrypt.hash, new User, up to the answer of user.save
signup_save(q, salt, dbOk) ==
    LET hashedPassword == Hash(q.body.password, salt)
        user == [firstName |-> q.body.firstName,
                 lastName |-> q.body.lastName,
                 email |-> q.body.email,
                 password |-> hashedPassword,
                 accessToken |-> NoAccess]
    IN  IF ~dbOk \/ DuplicateKey(users, user)
        THEN Answer(NoUser, 500, Text("Server error."))
        ELSE Outcome(TRUE, NoUser,
                     Response(200, Text("User registered successfully.")),
                     Save(users, user), {}, NoCall)

----------------------------------------------------------------------------
(* POST /login *)

LoginBodies == [email : Emails, password : Passwords]

\* faulty variant: the password is not compared
login_noCompare(body, dbOk) ==
    LET user == FindOne(users, body.email)
        token == JwtSign([email |-> user.email], jwtSecret)
    IN  IF ~dbOk THEN Answer(NoUser, 500, Text("Server error."))
        ELSE IF user = NoDoc
        THEN Answer(NoUser, 400, Text("Invalid email or password."))
        ELSE Answer(NoUser, 200, [token |-> token])

\* faulty variant: an unknown email gets a message of its own
login_tellsWhich(body, dbOk) ==
    LET user == FindOne(users, body.email)
        token == JwtSign([email |-> user.email], jwtSecret)
    IN  IF ~dbOk THEN Answer(NoUser, 500, Text("Server error."))
        ELSE IF user = NoDoc
        THEN Answer(NoUser, 400, Text("User not found."))
        ELSE IF ~Compare(body.password, user.password)
        THEN Answer(NoUser, 400, Text("Invalid email or password."))
        ELSE Answer(NoUser, 200, [token |-> token])

login(body, dbOk) ==
    LET user == FindOne(users, body.email)
        token == JwtSign([email |-> user.email], jwtSecret)
    IN  IF ~dbOk THEN Answer(NoUser, 500, Text("Server error."))
        ELSE IF user = NoDoc
        THEN Answer(NoUser, 400, Text("Invalid email or password."))
        ELSE IF ~Compare(body.password, user.password)
        THEN Answer(NoUser, 400, Text("Invalid email or password."))
        ELSE Answer(NoUser, 200, [token |-> token])

----------------------------------------------------------------------------
(* GET /user *)

\* faulty variant: res.json(user), the whole document
getUser_wholeDoc(header, dbOk) ==
    LET req == authenticateJWT(header)
        user == FindOne(users, req.user.email)
    IN  IF ~req.next THEN Rejected(header)
        ELSE IF ~dbOk THEN Answer(req.user, 500, Text("Server error."))
        ELSE IF user = NoDoc
        THEN Answer(req.user, 400, Text("User not found."))
        ELSE Answer(req.user, 200, user)

getUser(header, dbOk) ==
    LET req == authenticateJWT(header)
        user == FindOne(users, req.user.email)
    IN  IF ~req.next THEN Rejected(header)
        ELSE IF ~dbOk THEN Answer(req.user, 500, Text("Server error."))
        ELSE IF user = NoDoc
        THEN Answer(req.user, 400, Text("User not found."))
        ELSE Answer(req.user, 200,
                    [firstName |-> user.firstName,
                     lastName |-> user.lastName,
                     email |-> user.email])

----------------------------------------------------------------------------
(* POST /create_link_token *)

\* error.response ? error.response.data : 'Internal Server Error'
Proxied(outcome) ==
    IF outcome = "http_error" THEN PlaidError
    ELSE Text("Internal Server Error")

createLinkToken(header, outcome) ==
    LET req == authenticateJWT(header)
        call == [endpoint |-> "/link/token/create",
                 client_user_id |-> req.user.email]
    IN  IF ~req.next THEN Rejected(header)
        ELSE IF outcome = "ok"
        THEN Outcome(TRUE, req.user,
                     Response(200, [link_token |-> "link-token"]),
                     users, {}, call)
        ELSE Outcome(TRUE, req.user, Response(500, Proxied(outcome)),
                     users, {}, call)

----------------------------------------------------------------------------
(* POST /exchange_public_token *)

ExchangeBodies == [public_token : PublicTokens]

\* up to the answer of the aggregator's /item/public_token/exchange
exchange_post(header, body, answer) ==
    LET req == authenticateJWT(header)
        call == [endpoint |-> "/item/public_token/exchange",
                 public_token |-> body.public_token]
    IN  IF ~req.next THEN Rejected(header)
        ELSE IF answer.outcome = "ok"
        THEN Await(req.user,
                   Suspended("/exchange_public_token", header, body,
                             req.user, answer.access_token),
                   call)
        ELSE Outcome(TRUE, req.user, Response(500, Proxied(answer.outcome)),
                     users, {}, call)

\* faulty variant: the filter of findOneAndUpdate is empty, so some
\* document of the collection is updated, whoever asks
exchange_update_noFilter(q, dbOk) ==
    LET user == CHOOSE d \in BagToSet(users) : TRUE
    IN  IF ~dbOk THEN Answer(q.user, 500, Text("Internal Server Error"))
        ELSE IF users = EmptyBag
        THEN Answer(q.user, 400, Text("User not found."))
        ELSE Outcome(TRUE, q.user,
                     Response(200, [message |-> "Token exchange successful"]),
                     Replace(users, user,
                             [user EXCEPT !.accessToken = q.access]),
                     {}, NoCall)

\* up to the answer of User.findOneAndUpdate
exchange_update(q, dbOk) ==
    LET user == FindOne(users, q.user.email)
    IN  IF ~dbOk THEN Answer(q.user, 500, Text("Internal Server Error"))
        ELSE IF user = NoDoc
        THEN Answer(q.user, 400, Text("User not found."))
        ELSE Outcome(TRUE, q.user,
                     Response(200, [message |-> "Token exchange successful"]),
                     FindOneAndUpdate(users, q.user.email, q.access),
                     {}, NoCall)

----------------------------------------------------------------------------
(* GET /fetch_transactions *)

\* faulty variant: only !user is tested, not !user.accessToken
fetch_findOne_noTokenCheck(header, dbOk) ==
    LET req == authenticateJWT(header)
        user == FindOne(users, req.user.email)
    IN  IF ~req.next THEN Rejected(header)
        ELSE IF ~dbOk
        THEN Answer(req.user, 500, Text("Internal Server Error"))
        ELSE IF user = NoDoc
        THEN Answer(req.user, 400, Text("No access token found."))
        ELSE Await(req.user,
                   Suspended("/fetch_transactions", header, NoBody,
                             req.user, user.accessToken),
                   NoCall)

\* up to the answer of User.findOne
fetch_findOne(header, dbOk) ==
    LET req == authenticateJWT(header)
        user == FindOne(users, req.user.email)
    IN  IF ~req.next THEN Rejected(header)
        ELSE IF ~dbOk
        THEN Answer(req.user, 500, Text("Internal Server Error"))
        ELSE IF user = NoDoc \/ user.accessToken = NoAccess
        THEN Answer(req.user, 400, Text("No access token found."))
        ELSE Await(req.user,
                   Suspended("/fetch_transactions", header, NoBody,
                             req.user, user.accessToken),
                   NoCall)

\* up to the answer of the aggregator's /transactions/get
fetch_post(q, outcome) ==
    LET call == [endpoint |-> "/transactions/get",
                 access_token |-> q.access]
        response == PlaidTransactions(q.access)
    IN  IF outcome = "ok"
        THEN Outcome(TRUE, q.user,
                     Response(200, [transactions |-> response.transactions]),
                     users, {}, call)
        ELSE Outcome(TRUE, q.user, Response(500, Proxied(outcome)),
                     users, {}, call)

----------------------------------------------------------------------------
(* The server: each action applies the outcome of one step *)

\* tokens a response hands to the client
TokensIn(sent) ==
    IF "token" \in DOMAIN sent.data THEN {sent.data.token} ELSE {}

\* the first step of a request; a request can be left suspended only while
\* fewer than MaxInFlight are
Begin(out) ==
    /\ out.suspended # {} => BagCardinality(inflight) < MaxInFlight
    /\ users' = out.users
    /\ inflight' = inflight (+) SetToBag(out.suspended)
    /\ issued' = issued \cup TokensIn(out.sent)
    /\ UNCHANGED <<jwtSecret, registered, linked>>

\* the second step of the suspended request q
End(q, out) ==
    /\ users' = out.users
    /\ inflight' = (inflight (-) SetToBag({q})) (+) SetToBag(out.suspended)
    /\ issued' = issued \cup TokensIn(out.sent)
    /\ registered' =
         IF q.route = "/signup"
         THEN registered \cup {d \in BagToSet(out.users) :
                                  CopiesIn(d, out.users) > CopiesIn(d, users)}
         ELSE registered
    /\ linked' =
         IF q.route = "/exchange_public_token" /\ out.sent.status = 200
         THEN linked \cup {q.user.email}
         ELSE linked
    /\ UNCHANGED jwtSecret

Signup_findOne ==
    \E body \in SignupBodies, dbOk \in BOOLEAN :
        Begin(signup_findOne(body, dbOk))

Signup_save ==
    \E q \in Waiting("/signup"), salt \in Salts, dbOk \in BOOLEAN :
        End(q, signup_save(q, salt, dbOk))

Login ==
    \E body \in LoginBodies, dbOk \in BOOLEAN :
        Begin(login(body, dbOk))

GetUser ==
    \E header \in Headers, dbOk \in BOOLEAN :
        Begin(getUser(header, dbOk))

CreateLinkToken ==
    \E header \in Headers, outcome \in PlaidOutcomes :
        Begin(createLinkToken(header, outcome))

Exchange_post ==
    \E header \in Headers, body \in ExchangeBodies :
        \E answer \in PlaidExchange(body.public_token,
                                     authenticateJWT(header).user.email) :
            Begin(exchange_post(header, body, answer))

Exchange_update ==
    \E q \in Waiting("/exchange_public_token"), dbOk \in BOOLEAN :
        End(q, exchange_update(q, dbOk))

Fetch_findOne ==
    \E header \in Headers, dbOk \in BOOLEAN :
        Begin(fetch_findOne(header, dbOk))

Fetch_post ==
    \E q \in Waiting("/fetch_transactions"), outcome \in PlaidOutcomes :
        End(q, fetch_post(q, outcome))

Init ==
    /\ jwtSecret \in Keys
    /\ users = EmptyBag
    /\ inflight = EmptyBag
    /\ issued = {}
    /\ registered = {}
    /\ linked = {}

Next ==
    \/ Signup_findOne
    \/ Signup_save
    \/ Login
    \/ GetUser
    \/ CreateLinkToken
    \/ Exchange_post
    \/ Exchange_update
    \/ Fetch_findOne
    \/ Fetch_post

Spec == Init /\ [][Next]_vars

----------------------------------------------------------------------------
(* Properties *)

Exists(email) == FindOne(users, email) # NoDoc

\* the password verifies against the stored hash of the email's document
Verifies(body) ==
    Exists(body.email)
        /\ Compare(body.password, FindOne(users, body.email).password)

\* the header carries a token that verifies under JWT_SECRET
Authentic(header) ==
    header.parts = 2 /\ JwtVerifies(header.token, jwtSecret)

\* the outcomes of the first step of every protected route for a header
ProtectedOutcomes(header) ==
    {getUser(header, dbOk) : dbOk \in BOOLEAN}
        \cup {createLinkToken(header, o) : o \in PlaidOutcomes}
        \cup UNION {{exchange_post(header, body, answer) :
                        answer \in PlaidExchange(
                                      body.public_token,
                                      authenticateJWT(header).user.email)} :
                    body \in ExchangeBodies}
        \cup {fetch_findOne(header, dbOk) : dbOk \in BOOLEAN}

\* C1: in every reachable state, whatever the interleaving of the lookups and
\* saves of concurrent POST /signup requests, the User collection holds at
\* most one document per email.
C1_EmailUnique ==
    \A d \in BagToSet(users) :
        Matching(users, d.email) = {d} /\ CopiesIn(d, users) = 1

\* two signups for one email raced: one is past its lookup and still has to
\* save, and the other's document is already in the collection
C1_Witness ==
    \E q \in Waiting("/signup") : Exists(q.body.email)

\* C2: a POST /signup whose lookup finds a document for its email is answered
\* 400 'User already exists.', leaves the collection as it is and never
\* reaches the save.
C2_AlreadyExists ==
    \A body \in SignupBodies :
        Exists(body.email) =>
            signup_findOne(body, TRUE)
                = Outcome(TRUE, NoUser,
                          Response(400, Text("User already exists.")),
                          users, {}, NoCall)

\* an email is registered and somebody else can sign up with it
C2_Witness ==
    \E body \in SignupBodies :
        /\ Exists(body.email)
        /\ FindOne(users, body.email).firstName # body.firstName
        /\ ~Verifies(body)

\* C3: POST /login answers with a token exactly when a document exists for
\* the email and the password verifies against its hash (and the store
\* answered); the token carries that document's email and verifies under
\* JWT_SECRET; a login that fails hands out no token; and every token ever
\* handed out carries the email of a document.
C3_LoginToken ==
    /\ \A body \in LoginBodies, dbOk \in BOOLEAN :
         LET sent == login(body, dbOk).sent
         IN  IF dbOk /\ Verifies(body)
             THEN sent = Response(200, [token |->
                            [email |-> FindOne(users, body.email).email,
                             key |-> jwtSecret]])
                  /\ FindOne(users, body.email).email = body.email
             ELSE sent.status # 200 /\ TokensIn(sent) = {}
    /\ \A t \in issued : Exists(t.email) /\ t.key = jwtSecret

\* a login has succeeded, and a login with the wrong password for the same
\* email is possible
C3_Witness ==
    \E t \in issued :
        \E body \in LoginBodies : body.email = t.email /\ ~Verifies(body)

C5_Gate ==
    \A header \in Headers :
        \A out \in ProtectedOutcomes(header) :
            IF header.parts = 0
            THEN out = Outcome(FALSE, NoUser,
                         Response(401,
                                  Text("Access denied. No token provided.")),
                         users, {}, NoCall)
            ELSE IF ~Authentic(header)
            THEN out = Outcome(FALSE, NoUser,
                               Response(400, Text("Invalid token.")),
                               users, {}, NoCall)
            ELSE out.ran /\ out.user = [email |-> header.token.email]

\* a client holds a token of a login while a request of a protected route
\* is in its handler
C5_Witness ==
    /\ issued # {}
    /\ \E q \in BagToSet(inflight) : q.route # "/signup"

\* C6: with a token of user e, fetchTransactions is answered 400 'No access
\* token found.' without a call to the aggregator exactly while no exchange
\* of e has been acknowledged; once one has, e's document holds an access
\* token in every later state, fetchTransactions goes on to the aggregator
\* with the access token read from e's document, and answers with the
\* transaction list when that call succeeds.
C6_Linked ==
    /\ \A e \in linked : FindOne(users, e).accessToken # NoAccess
    /\ \A t \in issued :
         LET out == fetch_findOne(Bearer(t), TRUE)
         IN  IF t.email \notin linked
             THEN out = Outcome(TRUE, [email |-> t.email],
                                Response(400, Text("No access token found.")),
                                users, {}, NoCall)
             ELSE out = Outcome(TRUE, [email |-> t.email], NoResponse, users,
                                {Suspended("/fetch_transactions", Bearer(t),
                                           NoBody, [email |-> t.email],
                                           FindOne(users, t.email).accessToken)},
                                NoCall)
    /\ \A q \in Waiting("/fetch_transactions") :
         /\ q.user.email \in linked
         /\ q.access \in PlaidAccessTokens(q.user.email)
         /\ fetch_post(q, "ok")
              = Outcome(TRUE, q.user,
                        Response(200, [transactions |->
                            PlaidTransactions(q.access).transactions]),
                        users, {},
                        [endpoint |-> "/transactions/get",
                         access_token |-> q.access])

\* one user is linked and has a fetch on its way to the aggregator, another
\* user has logged in and is not linked
C6_Witness ==
    /\ Waiting("/fetch_transactions") # {}
    /\ \E t \in issued : t.email \notin linked

\* C7: every token a login has handed out is accepted by authenticateJWT in
\* every later state, and the identity attached to the request is the email
\* the token was issued for.
C7_TokenAccepted ==
    \A t \in issued :
        /\ authenticateJWT(Bearer(t))
             = [next |-> TRUE, user |-> [email |-> t.email],
                sent |-> NoResponse]
        /\ \A out \in ProtectedOutcomes(Bearer(t)) :
             out.ran /\ out.user = [email |-> t.email]

\* both users hold a token, long after the first login (documents have been
\* linked since)
C7_Witness ==
    /\ {t.email : t \in issued} = Emails
    /\ linked # {}

\* C8: GET /user with a token of a login for e answers, when the store
\* answers, 200 with exactly the firstName, lastName and email written at
\* e's registration, and with no other field; it never answers 'User not
\* found.'.
C8_Profile ==
    \A t \in issued, dbOk \in BOOLEAN :
        LET sent == getUser(Bearer(t), dbOk).sent
        IN  /\ sent # Response(400, Text("User not found."))
            /\ dbOk =>
                 /\ sent.status = 200
                 /\ DOMAIN sent.data = {"firstName", "lastName", "email"}
                 /\ sent.data.email = t.email
                 /\ \E d \in registered :
                      /\ d.email = sent.data.email
                      /\ d.firstName = sent.data.firstName
                      /\ d.lastName = sent.data.lastName

\* a user with a token whose document holds a password hash and an access
\* token
C8_Witness ==
    \E t \in issued : FindOne(users, t.email).accessToken # NoAccess

\* C9: no step deletes a document or changes the firstName, lastName, email
\* or password of one; every document is, but for its accessToken, as
\* user.save() wrote it; and a step changes the accessToken of a document
\* only if it is the update step of an exchange request authenticated as the
\* document's email, which writes the access token the aggregator answered
\* that request with.
C9_Frame ==
    [][/\ BagCardinality(users') >= BagCardinality(users)
       /\ \A d \in BagToSet(users') :
            [d EXCEPT !.accessToken = NoAccess] \in registered'
       /\ \A d \in BagToSet(users) :
            \E e \in BagToSet(users') :
               /\ e.firstName = d.firstName
               /\ e.lastName = d.lastName
               /\ e.email = d.email
               /\ e.password = d.password
               /\ CopiesIn(e, users') >= CopiesIn(d, users)
               /\ e.accessToken # d.accessToken =>
                    \E q \in Waiting("/exchange_public_token") :
                       /\ q.user.email = d.email
                       /\ q.access = e.accessToken
                       /\ inflight' = inflight (-) SetToBag({q})]_vars

\* two documents, one of them with an access token that an exchange is about
\* to overwrite
C9_Witness ==
    /\ BagCardinality(users) = 2
    /\ \E d \in BagToSet(users) :
         /\ d.accessToken # NoAccess
         /\ \E q \in Waiting("/exchange_public_token") :
              q.user.email = d.email /\ q.access # d.accessToken

\* C10: in every reachable state the accessToken of a document is absent or
\* an access token the aggregator answered to an exchange request
\* authenticated as the document's email; and an exchange that is
\* acknowledged writes the token answered to that request into the document
\* of the requesting identity and changes nothing else.
C10_OwnToken ==
    /\ \A d \in BagToSet(users) :
         \/ d.accessToken = NoAccess
         \/ d.accessToken \in PlaidAccessTokens(d.email)
    /\ \A q \in Waiting("/exchange_public_token") :
         /\ q.access \in PlaidAccessTokens(q.user.email)
         /\ LET out == exchange_update(q, TRUE)
                user == FindOne(users, q.user.email)
            IN  out.sent.status = 200 =>
                  /\ user.email = q.user.email
                  /\ out.users = Replace(users, user,
                                         [user EXCEPT !.accessToken = q.access])

\* exchanges of both users are suspended before their update at once, and a
\* document already holds a token
C10_Witness ==
    /\ {q.user.email : q \in Waiting("/exchange_public_token")} = Emails
    /\ \E d \in BagToSet(users) : d.accessToken # NoAccess

====
